---- MODULE Spec2Model ----
(***************************************************************************)
(* A model of src/app.py: the format normaliser get_video_info, and the    *)
(* transient-file lifecycle of download together with cleanup_old_files,   *)
(* run by several request threads over one shared temp directory.          *)
(*                                                                         *)
(* Two specifications:                                                     *)
(*   Spec      the file lifecycle (download, generate, cleanup_old_files)  *)
(*   SpecInfo  get_video_info applied to bounded descriptor lists          *)
(*                                                                         *)
(* Environment: os.remove and os.path.getmtime raise exactly when the file *)
(* is missing (the process owns the files of its temp directory), and an   *)
(* open file stays readable after it is unlinked (POSIX).                  *)
(***************************************************************************)
EXTENDS Integers, Sequences, FiniteSets, TLC

VARIABLES
    \* ---- the shared environment
    now,            \* the wall clock, time.time(), in ticks
    has_ffmpeg,     \* whether a muxing tool is installed (app.py never asks)
    disk,           \* DOWNLOAD_FOLDER: file name -> its modification time
    \* ---- one /download request per thread
    pc,             \* where each request is in download()
    loc,            \* each request's locals, under their names in app.py,
                    \* kept while they are live
    status,         \* what each client gets
    swallowed,      \* the last "except: pass" that caught an exception
    \* ---- get_video_info
    info_formats,   \* info['formats']
    ipc,            \* where get_video_info is
    idx,            \* the loop index of the running pass
    best_audio_size,
    filesize,       \* the local of the second loop, lines 53..57
    formats_dict,
    result          \* what get_video_info returns

fvars == <<now, has_ffmpeg, disk, pc, loc, status, swallowed>>
ivars == <<info_formats, ipc, idx, best_audio_size, filesize, formats_dict, result>>
vars == <<fvars, ivars>>

(***************************************************************************)
(* Bounds of the model                                                     *)
(***************************************************************************)
MaxTicks == 2
MaxChunks == 1
MaxDescs == 3

\* the request threads
Reqs == {1, 2}

(***************************************************************************)
(* Python values                                                           *)
(***************************************************************************)
\* None, and a key that the dict does not hold, where a number is expected
None == -1
Missing == -2

(***************************************************************************)
(* The clock and the file names                                            *)
(***************************************************************************)
\* time.time() is a float of sub-millisecond resolution: two ticks per ms
TicksPerMilli == 2
TicksPerSecond == 1000 * TicksPerMilli
\* file_age > 3600
RETENTION == 3600
Hour == RETENTION * TicksPerSecond
\* the clock when the first request arrives
StartTime == Hour + 2

\* int(time.time() * 1000)
Millis(t) == t \div TicksPerMilli

\* os.path.join(DOWNLOAD_FOLDER, f'video_{timestamp}') + '.' + ext
VideoFile(ts, ext) == [prefix |-> "video_", id |-> ts, ext |-> ext]
NoFile == [prefix |-> "", id |-> 0, ext |-> ""]

\* filename.startswith('video_')
StartsWithVideo(name) == name.prefix = "video_"

\* extensions = ['mp3', 'mp4', 'webm', 'mkv']
extensions == <<"mp3", "mp4", "webm", "mkv">>

\* file_age > 3600
ExpiredWeak(age) == age >= RETENTION * TicksPerSecond
Expired(age) == age > RETENTION * TicksPerSecond

\* format_id values a client sends; <<>> is a missing parameter
Combinator == <<"bestvideo", "+", "bestaudio", "/", "best">>
FormatIds == {<<>>, <<"bestaudio">>, <<"137">>, Combinator}
HasCombinator(f) == \E i \in 1..Len(f) : f[i] = "+"

\* is_audio, and ydl_opts['format']
IsAudio(f) == f = <<"bestaudio">>
YdlFormat(f) == IF IsAudio(f) THEN <<"bestaudio", "/", "best">> ELSE f

\* What ydl.extract_info(url, download=True) does with outtmpl: it raises and
\* writes nothing (bad URL, network), or writes one file. A merge and the mp3
\* extraction need the muxing tool: without it the separate stream stays as
\* <base>.f<id>.<ext>, and the FFmpegExtractAudio postprocessor raises after
\* the download.
EngineOutcomes(f) ==
    {[ext |-> "", raises |-> TRUE]} \cup
    (IF IsAudio(f) THEN
        (IF has_ffmpeg THEN {[ext |-> "mp3", raises |-> FALSE]}
                       ELSE {[ext |-> "webm", raises |-> TRUE]})
     ELSE IF HasCombinator(f) THEN
        (IF has_ffmpeg THEN {[ext |-> "mp4", raises |-> FALSE]}
                       ELSE {[ext |-> "f137.mp4", raises |-> FALSE]})
     ELSE {[ext |-> e, raises |-> FALSE] : e \in {"mp4", "webm"}})

Remove(d, name) == [n \in DOMAIN d \ {name} |-> d[n]]
Put(d, name, f) == [n \in DOMAIN d \cup {name} |-> IF n = name THEN f ELSE d[n]]

\* files other programs left in the shared temp directory
AmbientDisk ==
    LET notes == [prefix |-> "notes_", id |-> 0, ext |-> "txt"]
        orphan == VideoFile(0, "mp4")
    IN  Put(Put(<<>>, notes, 0), orphan, 2)

(***************************************************************************)
(* The lifecycle: download(), generate(), cleanup_old_files()              *)
(***************************************************************************)
\* the locals of a request that is not running
NoLocals ==
    [format_id |-> <<>>, timestamp |-> 0, ydl_format |-> <<>>,
     actual_file |-> NoFile, current_time |-> 0, todo |-> {},
     filepath |-> NoFile, file_age |-> 0, remaining |-> 0]

FInit ==
    /\ now = StartTime
    /\ has_ffmpeg \in BOOLEAN
    /\ disk = AmbientDisk
    /\ pc = [q \in Reqs |-> "idle"]
    /\ loc = [q \in Reqs |-> NoLocals]
    /\ status = [q \in Reqs |-> "none"]
    /\ swallowed = "none"

\* the handler returns: lines 139, 182, 223
Return(q, code) ==
    /\ pc' = [pc EXCEPT ![q] = "done"]
    /\ status' = [status EXCEPT ![q] = code]
    /\ loc' = [loc EXCEPT ![q] = NoLocals]

Goto(q, label) == pc' = [pc EXCEPT ![q] = label]

\* time passes
Tick ==
    /\ now < StartTime + MaxTicks
    /\ now' = now + 1
    /\ UNCHANGED <<has_ffmpeg, disk, pc, loc, status, swallowed>>

\* lines 135..162: the parameters, the identifier, the engine's options
Begin(q) ==
    /\ pc[q] = "idle"
    /\ \E url \in {"", "https://v"}, f \in FormatIds :
         IF url = "" \/ f = <<>>
         THEN Return(q, "400")
         ELSE /\ loc' = [loc EXCEPT ![q].format_id = f,
                                    ![q].timestamp = Millis(now),
                                    ![q].ydl_format = YdlFormat(f)]
              /\ Goto(q, "engine")
              /\ UNCHANGED status
    /\ UNCHANGED <<now, has_ffmpeg, disk, swallowed>>

\* lines 164..165: the engine downloads to temp_file + '.%(ext)s'; the file's
\* modification time is the download's, or the one the server reports
Download(q) ==
    /\ pc[q] = "engine"
    /\ \E o \in EngineOutcomes(loc[q].format_id), mtime \in {now, 0} :
         /\ disk' = IF o.ext = "" THEN disk
                    ELSE Put(disk, VideoFile(loc[q].timestamp, o.ext), mtime)
         /\ IF o.raises
            THEN Return(q, "500")
            ELSE /\ Goto(q, "probe")
                 /\ UNCHANGED <<loc, status>>
    /\ UNCHANGED <<now, has_ffmpeg, swallowed>>

\* lines 171..182: the first extension of the list whose file exists
Found(ts, d) ==
    {i \in 1..Len(extensions) : VideoFile(ts, extensions[i]) \in DOMAIN d}

Probe(q) ==
    /\ pc[q] = "probe"
    /\ LET found == Found(loc[q].timestamp, disk) IN
         IF found = {}
         THEN Return(q, "500")
         ELSE LET i == CHOOSE i \in found : \A j \in found : i <= j IN
              /\ loc' = [loc EXCEPT ![q] =
                           [NoLocals EXCEPT !.actual_file =
                              VideoFile(loc[q].timestamp, extensions[i])]]
              /\ Goto(q, "cleanup")
              /\ UNCHANGED status
    /\ UNCHANGED <<now, has_ffmpeg, disk, swallowed>>

\* lines 227..229: the clock is read once and the directory is listed once
CleanupStart(q) ==
    /\ pc[q] = "cleanup"
    /\ loc' = [loc EXCEPT ![q].current_time = now, ![q].todo = DOMAIN disk]
    /\ Goto(q, "sweep")
    /\ UNCHANGED <<now, has_ffmpeg, disk, status, swallowed>>

\* lines 232..237: getmtime raised inside the try; "except: pass" goes on to
\* the next file of the listing
GetmtimeRaisedUncaught(q, name) ==
    /\ Return(q, "500")
    /\ UNCHANGED swallowed
GetmtimeRaised(q, name) ==
    /\ loc' = [loc EXCEPT ![q].todo = @ \ {name}, ![q].filepath = name]
    /\ swallowed' = "getmtime"
    /\ UNCHANGED <<pc, status>>

\* lines 229..234: one file of the listing: the prefix, getmtime, the age.
\* getmtime raises on a file that is gone. os.listdir gives the names in one
\* arbitrary order, the CHOOSE of each step.
SweepFile(q) ==
    /\ pc[q] = "sweep"
    /\ loc[q].todo # {}
    /\ \E name \in {CHOOSE n \in loc[q].todo : TRUE} :
         LET rest == loc[q].todo \ {name}
             age == loc[q].current_time - disk[name]
         IN  IF ~StartsWithVideo(name)
             THEN /\ loc' = [loc EXCEPT ![q].todo = rest]
                  /\ UNCHANGED <<pc, status, swallowed>>
             ELSE IF name \notin DOMAIN disk
             THEN GetmtimeRaised(q, name)
             ELSE /\ loc' = [loc EXCEPT ![q].todo = rest,
                                        ![q].filepath = name,
                                        ![q].file_age = age]
                  /\ Goto(q, IF Expired(age) THEN "sweep_rm" ELSE "sweep")
                  /\ UNCHANGED <<status, swallowed>>
    /\ UNCHANGED <<now, has_ffmpeg, disk>>

\* lines 235..237: os.remove(filepath); it raises on a file that is gone
SweepRemove(q) ==
    /\ pc[q] = "sweep_rm"
    /\ IF loc[q].filepath \in DOMAIN disk
       THEN /\ disk' = Remove(disk, loc[q].filepath)
            /\ UNCHANGED swallowed
       ELSE /\ swallowed' = "sweep_remove"
            /\ UNCHANGED disk
    /\ Goto(q, "sweep")
    /\ UNCHANGED <<now, has_ffmpeg, loc, status>>

\* the for loop of line 229 ends and cleanup_old_files returns
SweepDone(q) ==
    /\ pc[q] = "sweep"
    /\ loc[q].todo = {}
    /\ loc' = [loc EXCEPT ![q] = [NoLocals EXCEPT !.actual_file = loc[q].actual_file]]
    /\ Goto(q, "respond")
    /\ UNCHANGED <<now, has_ffmpeg, disk, status, swallowed>>

\* lines 201..223: the response and its Content-Length; os.path.getsize raises
\* on a file that is gone and line 222 turns that into a 500
Respond(q) ==
    /\ pc[q] = "respond"
    /\ IF loc[q].actual_file \in DOMAIN disk
       THEN /\ status' = [status EXCEPT ![q] = "200"]
            /\ Goto(q, "open")
            /\ UNCHANGED loc
       ELSE Return(q, "500")
    /\ UNCHANGED <<now, has_ffmpeg, disk, swallowed>>

\* line 189: generate() opens the file when the server asks for the first
\* chunk; on a file that is gone the open raises out of the generator
Open(q) ==
    /\ pc[q] = "open"
    /\ IF loc[q].actual_file \in DOMAIN disk
       THEN /\ \E size \in 1..MaxChunks : loc' = [loc EXCEPT ![q].remaining = size]
            /\ Goto(q, "stream")
            /\ UNCHANGED status
       ELSE Return(q, "broken")
    /\ UNCHANGED <<now, has_ffmpeg, disk, swallowed>>

\* lines 190..194: one chunk is read and yielded; the empty read ends the loop
Chunk(q) ==
    /\ pc[q] = "stream"
    /\ IF loc[q].remaining > 0
       THEN /\ loc' = [loc EXCEPT ![q].remaining = @ - 1]
            /\ UNCHANGED pc
       ELSE /\ Goto(q, "remove")
            /\ UNCHANGED loc
    /\ UNCHANGED <<now, has_ffmpeg, disk, status, swallowed>>

\* lines 196..199: os.remove raised inside the try; "except: pass" lets the
\* generator end as after a removal
RemoveRaisedUncaught(q) ==
    /\ Return(q, "broken")
    /\ UNCHANGED swallowed
RemoveRaised(q) ==
    /\ swallowed' = "stream_remove"
    /\ status' = [status EXCEPT ![q] = "ok"]
    /\ Goto(q, "done")
    /\ UNCHANGED loc

\* lines 195..199: os.remove(actual_file) after the last chunk
StreamRemove(q) ==
    /\ pc[q] = "remove"
    /\ IF loc[q].actual_file \in DOMAIN disk
       THEN /\ disk' = Remove(disk, loc[q].actual_file)
            /\ status' = [status EXCEPT ![q] = "ok"]
            /\ Goto(q, "done")
            /\ UNCHANGED <<loc, swallowed>>
       ELSE /\ RemoveRaised(q)
            /\ UNCHANGED disk
    /\ UNCHANGED <<now, has_ffmpeg>>

(***************************************************************************)
(* get_video_info: the stream descriptors and Python's dict and operators  *)
(***************************************************************************)
\* the same for a codec tag, which is a string
NoneTag == "<None>"
MissingTag == "<missing>"

Desc(h, v, a, fs, fa) ==
    [height |-> h, vcodec |-> v, acodec |-> a, filesize |-> fs, filesize_approx |-> fa]

\* the descriptors the engine reports, one per case of the two loops
Descs ==
    {Desc(720, "avc1", "none", fs[1], fs[2]) :
        fs \in {<<3, Missing>>, <<None, 4>>, <<None, None>>, <<Missing, Missing>>}}
    \cup {Desc(720, "avc1", "mp4a", fs[1], fs[2]) :
        fs \in {<<5, Missing>>, <<3, 4>>, <<None, None>>}}
    \cup {Desc(1080, "avc1", MissingTag, 5, Missing), Desc(1080, "vp9", "opus", 0, 4),
          Desc(144, "avc1", "mp4a", 3, Missing),
          Desc(143, "avc1", "mp4a", 5, Missing),
          Desc(720, NoneTag, "mp4a", 5, Missing),
          Desc(720, MissingTag, "mp4a", 5, Missing),
          Desc(None, "avc1", "mp4a", 5, Missing)}
    \cup {Desc(h, "none", a, fs[1], fs[2]) :
        h \in {None}, a \in {"mp4a"},
        fs \in {<<2, Missing>>, <<1, 4>>, <<None, None>>}}
    \cup {Desc(Missing, "none", MissingTag, Missing, 1)}

\* the engine gives every descriptor its own format_id
WithId(d, i) ==
    [format_id |-> <<ToString(i)>>, height |-> d.height, vcodec |-> d.vcodec,
     acodec |-> d.acodec, filesize |-> d.filesize,
     filesize_approx |-> d.filesize_approx]

Inputs(n) == {[i \in 1..n |-> WithId(ds[i], i)] : ds \in [1..n -> Descs]}

\* f.get(key) and f.get(key, default), on a number and on a codec tag
Get(v) == IF v = Missing THEN None ELSE v
GetOr(v, default) == IF v = Missing THEN default ELSE v
GetTag(v) == IF v = MissingTag THEN NoneTag ELSE v
GetTagOr(v, default) == IF v = MissingTag THEN default ELSE v

\* "not x", and "a or b"
Not(x) == x = None \/ x = 0
Or(a, b) == IF Not(a) THEN b ELSE a

\* lines 35 and 53: f.get('filesize') or f.get('filesize_approx', 0)
FileSize(f) == Or(Get(f.filesize), GetOr(f.filesize_approx, 0))

\* line 34: an audio-only descriptor
IsAudioOnly(f) == GetTag(f.acodec) # "none" /\ GetTag(f.vcodec) = "none"

\* lines 41..50: a descriptor the second loop skips
Skipped(f) ==
    \/ Not(Get(f.height))
    \/ Get(f.height) < 144
    \/ GetTagOr(f.vcodec, "none") = "none"
    \/ GetTagOr(f.vcodec, "none") = NoneTag

\* line 56: a video-only descriptor gets the audio size added
AddsAudio(f, best) == GetTagOr(f.acodec, "none") = "none" /\ best > 0

\* line 65: filesize > formats_dict[key]['filesize']
ReplacesOnTie(new, old) == new >= old
Replaces(new, old) == new > old

\* lines 66..76: the entry of a descriptor (the fields the ranking reads)
Entry(f, size) ==
    [format_id |-> f.format_id,
     resolution |-> ToString(Get(f.height)) \o "p",
     height |-> Get(f.height),
     filesize |-> size]

\* lines 84..93 and 96..105: the two synthetic entries
BestEntry(size) ==
    [format_id |-> Combinator, resolution |-> "Best Available",
     height |-> 9999, filesize |-> size]
AudioEntry(size) ==
    [format_id |-> <<"bestaudio">>, resolution |-> "Audio Only",
     height |-> 0, filesize |-> size]

\* lines 79..80: list(formats_dict.values()), sorted by height, largest first
RECURSIVE SortAscending(_)
SortAscending(d) ==
    IF DOMAIN d = {} THEN <<>>
    ELSE LET k == CHOOSE k \in DOMAIN d : \A j \in DOMAIN d : d[k].height <= d[j].height
         IN  <<d[k]>> \o SortAscending([j \in DOMAIN d \ {k} |-> d[j]])
RECURSIVE SortByHeight(_)
SortByHeight(d) ==
    IF DOMAIN d = {} THEN <<>>
    ELSE LET k == CHOOSE k \in DOMAIN d : \A j \in DOMAIN d : d[k].height >= d[j].height
         IN  <<d[k]>> \o SortByHeight([j \in DOMAIN d \ {k} |-> d[j]])

\* lines 82..105: "Best Available" in front of a list that is not empty,
\* "Audio Only" behind every list
BestOnly(formats, best) ==
    IF formats # <<>>
    THEN <<BestEntry(formats[1].filesize)>> \o formats \o <<AudioEntry(best)>>
    ELSE <<>>
WithSynthetic(formats, best) ==
    (IF formats # <<>> THEN <<BestEntry(formats[1].filesize)>> ELSE <<>>)
        \o formats \o <<AudioEntry(best)>>

NoResult == [kind |-> "none", formats |-> <<>>]
\* line 116: return {'error': str(e)}
ErrorResult == [kind |-> "error", formats |-> <<>>]

IInit ==
    /\ \E n \in 0..MaxDescs : info_formats \in Inputs(n)
    /\ ipc = "audio"
    /\ idx = 0
    /\ best_audio_size = 0
    /\ filesize = 0
    /\ formats_dict = <<>>
    /\ result = NoResult

Raise ==
    /\ ipc' = "done"
    /\ result' = ErrorResult
    /\ UNCHANGED <<info_formats, idx, best_audio_size, filesize, formats_dict>>

\* lines 33..37, one descriptor; None > int is a TypeError, caught at line 115
AudioStep ==
    /\ ipc = "audio"
    /\ idx < Len(info_formats)
    /\ LET f == info_formats[idx + 1] IN
         IF ~IsAudioOnly(f)
         THEN /\ idx' = idx + 1
              /\ UNCHANGED <<info_formats, ipc, best_audio_size, filesize,
                             formats_dict, result>>
         ELSE IF FileSize(f) = None
         THEN Raise
         ELSE /\ idx' = idx + 1
              /\ best_audio_size' = IF FileSize(f) > best_audio_size
                                    THEN FileSize(f) ELSE best_audio_size
              /\ UNCHANGED <<info_formats, ipc, filesize, formats_dict, result>>

\* the first loop ends
AudioDone ==
    /\ ipc = "audio"
    /\ idx = Len(info_formats)
    /\ ipc' = "video"
    /\ idx' = 0
    /\ UNCHANGED <<info_formats, best_audio_size, filesize, formats_dict, result>>

\* lines 40..76, one descriptor; None + int and a comparison with None are
\* TypeErrors, caught at line 115
VideoStep ==
    /\ ipc = "video"
    /\ idx < Len(info_formats)
    /\ LET f == info_formats[idx + 1]
           key == Get(f.height)
           adds == AddsAudio(f, best_audio_size)
           size == IF adds THEN FileSize(f) + best_audio_size ELSE FileSize(f)
       IN  IF Skipped(f)
           THEN /\ idx' = idx + 1
                /\ UNCHANGED <<info_formats, ipc, best_audio_size, filesize,
                               formats_dict, result>>
           ELSE IF adds /\ FileSize(f) = None
           THEN /\ ipc' = "done"
                /\ result' = ErrorResult
                /\ filesize' = None
                /\ UNCHANGED <<info_formats, idx, best_audio_size, formats_dict>>
           ELSE IF key \in DOMAIN formats_dict
                   /\ (size = None \/ formats_dict[key].filesize = None)
           THEN /\ ipc' = "done"
                /\ result' = ErrorResult
                /\ filesize' = size
                /\ UNCHANGED <<info_formats, idx, best_audio_size, formats_dict>>
           ELSE /\ idx' = idx + 1
                /\ filesize' = size
                /\ formats_dict' =
                     IF key \notin DOMAIN formats_dict
                        \/ Replaces(size, formats_dict[key].filesize)
                     THEN [k \in DOMAIN formats_dict \cup {key} |->
                             IF k = key THEN Entry(f, size) ELSE formats_dict[k]]
                     ELSE formats_dict
                /\ UNCHANGED <<info_formats, ipc, best_audio_size, result>>

\* lines 78..114: the sorted list, the synthetic entries, the result
Finish ==
    /\ ipc = "video"
    /\ idx = Len(info_formats)
    /\ ipc' = "done"
    /\ result' = [kind |-> "ok",
                  formats |-> WithSynthetic(SortByHeight(formats_dict),
                                            best_audio_size)]
    /\ UNCHANGED <<info_formats, idx, best_audio_size, filesize, formats_dict>>

FIdle ==
    /\ now = StartTime
    /\ has_ffmpeg = FALSE
    /\ disk = AmbientDisk
    /\ pc = [q \in Reqs |-> "idle"]
    /\ loc = [q \in Reqs |-> NoLocals]
    /\ status = [q \in Reqs |-> "none"]
    /\ swallowed = "none"

IIdle ==
    /\ info_formats = <<>>
    /\ ipc = "off"
    /\ idx = 0
    /\ best_audio_size = 0
    /\ filesize = 0
    /\ formats_dict = <<>>
    /\ result = NoResult

(***************************************************************************)
(* The specifications                                                      *)
(***************************************************************************)
Init == FInit /\ IIdle
Next ==
    \/ Tick /\ UNCHANGED ivars
    \/ \E q \in Reqs : Begin(q) /\ UNCHANGED ivars
    \/ \E q \in Reqs : Download(q) /\ UNCHANGED ivars
    \/ \E q \in Reqs : Probe(q) /\ UNCHANGED ivars
    \/ \E q \in Reqs : CleanupStart(q) /\ UNCHANGED ivars
    \/ \E q \in Reqs : SweepFile(q) /\ UNCHANGED ivars
    \/ \E q \in Reqs : SweepRemove(q) /\ UNCHANGED ivars
    \/ \E q \in Reqs : SweepDone(q) /\ UNCHANGED ivars
    \/ \E q \in Reqs : Respond(q) /\ UNCHANGED ivars
    \/ \E q \in Reqs : Open(q) /\ UNCHANGED ivars
    \/ \E q \in Reqs : Chunk(q) /\ UNCHANGED ivars
    \/ \E q \in Reqs : StreamRemove(q) /\ UNCHANGED ivars
Spec == Init /\ [][Next]_vars

InitInfo == FIdle /\ IInit
NextInfo ==
    \/ AudioStep /\ UNCHANGED fvars
    \/ AudioDone /\ UNCHANGED fvars
    \/ VideoStep /\ UNCHANGED fvars
    \/ Finish /\ UNCHANGED fvars
SpecInfo == InitInfo /\ [][NextInfo]_vars

(***************************************************************************)
(* What the properties speak of                                            *)
(***************************************************************************)
\* a fetch that has resolved its file and has not yet sent the last chunk
Holds(q) == pc[q] \in {"cleanup", "sweep", "sweep_rm", "respond", "open", "stream"}

\* the file a sweep step of q visits: the one that leaves todo
Visited(q) == loc[q].todo \ loc'[q].todo

SweepVisits(q) == pc[q] = "sweep" /\ loc'[q].todo # loc[q].todo
SweepRemoves(q) == pc[q] = "sweep_rm" /\ pc'[q] # "sweep_rm"
StreamRemoves(q) == pc[q] = "remove" /\ pc'[q] # "remove"

OneHour == 3600 * 1000 * TicksPerMilli

Notes == [prefix |-> "notes_", id |-> 0, ext |-> "txt"]
Orphan == [prefix |-> "video_", id |-> 0, ext |-> "mp4"]

\* a descriptor with height >= 144 and a video codec
Usable(f) ==
    /\ f.height \notin {None, Missing}
    /\ f.height >= 144
    /\ f.vcodec \notin {"none", NoneTag, MissingTag}
Survivors == {k \in 1..Len(info_formats) : Usable(info_formats[k])}

\* a size field that is given: present, not null, not zero
Given(x) == x \notin {None, Missing, 0}
\* the exact size if given, else the approximate size if given, else 0
BaseSize(f) ==
    IF Given(f.filesize) THEN f.filesize
    ELSE IF Given(f.filesize_approx) THEN f.filesize_approx
    ELSE 0
\* a size field that is null where the code reads it
NullSize(f) == ~Given(f.filesize) /\ f.filesize_approx = None

\* an audio-only descriptor: no video codec, and an audio tag other than 'none'
AudioOnly(f) == f.vcodec = "none" /\ f.acodec # "none"
VideoOnly(f) == f.acodec \in {"none", MissingTag}
Largest(S) == IF S = {} THEN 0 ELSE CHOOSE x \in S : \A y \in S : y <= x
BestAudioSize ==
    Largest({BaseSize(info_formats[k]) :
               k \in {j \in 1..Len(info_formats) : AudioOnly(info_formats[j])}})
EstimatedSize(f) == BaseSize(f) + (IF VideoOnly(f) THEN BestAudioSize ELSE 0)

IsReal(e) == e.resolution \notin {"Best Available", "Audio Only"}

(***************************************************************************)
(* The file lifecycle                                                      *)
(***************************************************************************)
\* C1: two fetches in flight never choose the same target base path
\* DOWNLOAD_FOLDER/video_<timestamp>, also when both take their identifier
\* within one millisecond.
C1_DistinctTargetPaths ==
    \A q, r \in Reqs :
        (q # r /\ pc[q] \in {"engine", "probe"} /\ pc[r] \in {"engine", "probe"})
            => loc[q].timestamp # loc[r].timestamp

\* C2: the step after the last chunk leaves the resolved file absent from
\* disk, and the response completes without an error also when os.remove
\* raised.
C2_DeletedAfterLastChunk ==
    [][\A q \in Reqs :
         StreamRemoves(q) =>
            /\ loc[q].actual_file \notin DOMAIN disk'
            /\ pc'[q] = "done"
            /\ status'[q] = "ok"]_vars

C2_Witness ==
    \E q \in Reqs :
        /\ pc[q] = "done"
        /\ status[q] = "ok"
        /\ loc[q].actual_file # NoFile
        /\ loc[q].actual_file \notin DOMAIN disk
        /\ swallowed = "stream_remove"

\* C3: a sweep visits every listed file; it removes the file it visits exactly
\* when the name starts with 'video_' and the modification time it reads is
\* more than one hour before the sweep's clock reading; it changes no other
\* file.
C3_SweepRemovesExactlyExpired ==
    [][\A q \in Reqs :
         /\ SweepVisits(q) =>
               /\ disk' = disk
               /\ \A name \in Visited(q) :
                     /\ pc'[q] = "sweep_rm" <=>
                           /\ StartsWithVideo(name)
                           /\ name \in DOMAIN disk
                           /\ loc[q].current_time - disk[name] > OneHour
                     /\ pc'[q] = "sweep_rm" => loc'[q].filepath = name
         /\ SweepRemoves(q) =>
               /\ pc'[q] = "sweep"
               /\ loc[q].filepath \notin DOMAIN disk'
               /\ \A name \in DOMAIN disk \ {loc[q].filepath} :
                     name \in DOMAIN disk' /\ disk'[name] = disk[name]
         /\ (pc[q] = "sweep" /\ pc'[q] \notin {"sweep", "sweep_rm"}) =>
               /\ loc[q].todo = {}
               /\ pc'[q] = "respond"
               /\ disk' = disk]_vars

C3_Witness ==
    \E q \in Reqs :
        /\ pc[q] = "sweep"
        /\ StartsWithVideo(loc[q].filepath)
        /\ loc[q].file_age > OneHour
        /\ loc[q].filepath \notin DOMAIN disk
        /\ Notes \in DOMAIN disk /\ Notes \notin loc[q].todo
        /\ loc[q].current_time - disk[Notes] > OneHour
        /\ Orphan \in DOMAIN disk /\ Orphan \notin loc[q].todo
        /\ loc[q].current_time - disk[Orphan] = OneHour

\* C4: a sweep step or a post-stream deletion that finds its file already
\* gone raises nothing: the sweep goes on with the files left and the fetch
\* gets no error status.
C4_GoneIsNoError ==
    [][\A q \in Reqs :
         /\ SweepVisits(q) =>
               \A name \in Visited(q) :
                   name \notin DOMAIN disk =>
                      /\ pc'[q] = "sweep"
                      /\ loc'[q].todo = loc[q].todo \ {name}
                      /\ status'[q] = status[q]
         /\ (pc[q] = "sweep" /\ loc[q].todo # {}) => pc'[q] \in {"sweep", "sweep_rm"}
         /\ (SweepRemoves(q) /\ loc[q].filepath \notin DOMAIN disk) =>
               /\ pc'[q] = "sweep"
               /\ loc'[q].todo = loc[q].todo
               /\ status'[q] = status[q]
         /\ (StreamRemoves(q) /\ loc[q].actual_file \notin DOMAIN disk) =>
               /\ pc'[q] = "done"
               /\ status'[q] = "ok"]_vars

C4_Witness ==
    \E q \in Reqs :
        /\ swallowed = "getmtime"
        /\ pc[q] = "sweep"
        /\ StartsWithVideo(loc[q].filepath)
        /\ loc[q].filepath \notin DOMAIN disk
        /\ loc[q].todo # {}
        /\ status[q] = "none"

\* C9: a fetch whose format_id holds a combinator, with no muxing tool
\* installed, hands the engine the single-stream request 'best'.
C9_FallsBackToBest ==
    \A q \in Reqs :
        (pc[q] = "engine" /\ HasCombinator(loc[q].format_id) /\ ~has_ffmpeg)
            => loc[q].ydl_format = <<"best">>

\* C10: no sweep removes the file of a fetch that has resolved it and has not
\* yet sent its last chunk.
C10_SweepSparesResolvedFile ==
    [][\A q, r \in Reqs :
         (SweepRemoves(q) /\ Holds(r) /\ loc[r].actual_file \in DOMAIN disk)
            => loc[r].actual_file \in DOMAIN disk']_vars

(***************************************************************************)
(* get_video_info                                                          *)
(***************************************************************************)
\* C5: the formats list holds at most one real option per height, and the
\* option of a height is the surviving descriptor of that height with the
\* largest estimated size, the first seen on equal sizes.
C5_OnePerHeightLargestFirstSeen ==
    (ipc = "done" /\ result.kind = "ok") =>
        LET F == result.formats
            real == {i \in 1..Len(F) : IsReal(F[i])}
        IN  /\ \A i, j \in real : F[i].height = F[j].height => i = j
            /\ \A i \in real :
                  \E k \in Survivors :
                      /\ F[i].format_id = info_formats[k].format_id
                      /\ F[i].height = info_formats[k].height
                      /\ \A m \in Survivors \ {k} :
                            info_formats[m].height = info_formats[k].height =>
                               /\ F[i].filesize = EstimatedSize(info_formats[k])
                               /\ \/ EstimatedSize(info_formats[m])
                                        < EstimatedSize(info_formats[k])
                                  \/ /\ EstimatedSize(info_formats[m])
                                          = EstimatedSize(info_formats[k])
                                     /\ k < m

C5_Witness ==
    /\ ipc = "done"
    /\ result.kind = "ok"
    /\ \E k, m \in Survivors :
          /\ k < m
          /\ info_formats[k].height = info_formats[m].height
          /\ EstimatedSize(info_formats[k]) = EstimatedSize(info_formats[m])
    /\ \E k, m \in Survivors :
          /\ k < m
          /\ info_formats[k].height = info_formats[m].height
          /\ EstimatedSize(info_formats[k]) < EstimatedSize(info_formats[m])

\* C6: with a usable video descriptor, the list is 'Best Available' with the
\* size of the highest real entry, the real entries by descending height, one
\* for each height of a usable descriptor, and 'Audio Only' with bestAudioSize.
C6_BestRealsAudio ==
    (ipc = "done" /\ result.kind = "ok" /\ Survivors # {}) =>
        LET F == result.formats
            n == Len(F)
        IN  /\ n >= 3
            /\ F[1] = BestEntry(F[2].filesize)
            /\ F[n] = AudioEntry(BestAudioSize)
            /\ \A i \in 2..(n - 1) : IsReal(F[i])
            /\ \A i, j \in 2..(n - 1) : i < j => F[i].height > F[j].height
            /\ {F[i].height : i \in 2..(n - 1)}
                  = {info_formats[k].height : k \in Survivors}

C6_Witness ==
    /\ ipc = "done"
    /\ result.kind = "ok"
    /\ Len(result.formats) = 4
    /\ {1, 2} \subseteq Survivors
    /\ info_formats[1].height < info_formats[2].height
    /\ VideoOnly(info_formats[2])
    /\ result.formats[4].filesize > 0

\* C7: the estimated size the second loop computes for a usable descriptor is
\* the exact size if given, else the approximate size if given, else 0, plus
\* bestAudioSize for a video-only descriptor, also when a size field is null;
\* no usable descriptor makes get_video_info fail.
C7_EstimatedSize ==
    /\ (ipc = "video" /\ idx >= 1 /\ Usable(info_formats[idx]))
          => filesize = EstimatedSize(info_formats[idx])
    /\ (ipc = "done" /\ result.kind = "error" /\ idx < Len(info_formats))
          => ~Usable(info_formats[idx + 1])

\* C8 as stated: without a usable video descriptor the formats are the empty
\* list or the single fallback 'Best' entry.
C8_EmptyOrBestFallback ==
    (ipc = "done" /\ result.kind = "ok" /\ Survivors = {}) =>
        \/ result.formats = <<>>
        \/ /\ Len(result.formats) = 1
           /\ result.formats[1].resolution \in {"Best", "Best Available"}

\* C8 as amended: without a usable video descriptor the formats are the single
\* 'Audio Only' entry with bestAudioSize; get_video_info returns an error and
\* no formats exactly when an audio-only descriptor's size is null.
C8_AudioOnlyEntryAlone ==
    (ipc = "done" /\ Survivors = {}) =>
        IF \E k \in 1..Len(info_formats) :
              AudioOnly(info_formats[k]) /\ NullSize(info_formats[k])
        THEN result = ErrorResult
        ELSE result = [kind |-> "ok", formats |-> <<AudioEntry(BestAudioSize)>>]

C8_Witness ==
    /\ ipc = "done"
    /\ result.kind = "ok"
    /\ Survivors = {}
    /\ Len(info_formats) >= 2
    /\ \E k \in 1..Len(info_formats) : info_formats[k].vcodec = "avc1"
    /\ result.formats = <<AudioEntry(2)>>

====
